---- MODULE Spec2Model ----
(***************************************************************************)
(* Model of obsidibear: the Bear <-> Obsidian reconciliation engine.       *)
(*                                                                         *)
(* Text (note bodies, titles, tags, documents, paths) is a sequence of     *)
(* tokens.  A token is a TLA+ string standing for one character, except    *)
(* for a few atoms that no modelled operation looks into (a folder word,   *)
(* the metadata lines of a frontmatter block, the word "Untitled").        *)
(***************************************************************************)
EXTENDS Integers, Sequences, FiniteSets, TLC

\* ------------------------------------------------------------------ bounds
NumIds == 2
MaxEdits == 2
MaxRuns == 2
MaxFaults == 1
MaxDcIds == 3
MaxCalls == 4
MaxStIds == 3
MaxSaves == 3
MaxBody == 3
MaxText == 5

\* ------------------------------------------------------- program constants
\* filenames.py:12
_MAX_NAME_LEN == 200

LF == "LF"
\* markdown.py:9
_BRAILLE_BLANK == "BRAILLE"
\* a byte sequence that read_text(encoding="utf-8") cannot decode
Undecodable == "BYTES"
Dashes == "---"
Untitled == <<"Untitled">>
UntaggedFolder == <<"_untagged">>
MdExt == <<".", "m", "d">>

\* ------------------------------------------------------------ text helpers
Whitespace == {" ", LF}

\* code point order of the first character of every token that can occur
\* in a destination path (Python compares str by code point)
TokOrd(t) ==
    CASE t = " " -> 32
      [] t = "#" -> 35
      [] t = "." -> 46
      [] t = "/" -> 47
      [] t = "2" -> 50
      [] t = "3" -> 51
      [] t = "4" -> 52
      [] t = "5" -> 53
      [] t = "6" -> 54
      [] t = "7" -> 55
      [] t = "8" -> 56
      [] t = "9" -> 57
      [] t = "0" -> 48
      [] t = "1" -> 49
      [] t = ":" -> 58
      [] t = "A" -> 65
      [] t = "Untitled" -> 85
      [] t = "_" -> 95
      [] t = "_untagged" -> 96
      [] t = "a" -> 97
      [] t = "d" -> 100
      [] t = "home" -> 104
      [] t = "m" -> 109
      [] t = "secret" -> 115
      [] t = "work" -> 119
      [] OTHER -> 200

\* str.__lt__ on token sequences: the first position where they differ
\* decides, a proper prefix is smaller
StrLess(s, t) ==
    LET diff == {i \in 1..Len(s) : i <= Len(t) /\ s[i] # t[i]}
    IN IF diff = {} THEN Len(s) < Len(t)
       ELSE LET k == CHOOSE i \in diff : \A j \in diff : i <= j
            IN TokOrd(s[k]) < TokOrd(t[k])

\* str.lower(): only "A" has a distinct lower-case form in the alphabet
LowerTok(t) == IF t = "A" THEN "a" ELSE t
Lower(s) == [i \in 1..Len(s) |-> LowerTok(s[i])]

\* str.strip(chars) / str.rstrip(chars)
RECURSIVE LStrip(_, _)
LStrip(s, chars) ==
    IF s # <<>> /\ Head(s) \in chars THEN LStrip(Tail(s), chars) ELSE s

RECURSIVE RStrip(_, _)
RStrip(s, chars) ==
    IF s # <<>> /\ s[Len(s)] \in chars
    THEN RStrip(SubSeq(s, 1, Len(s) - 1), chars)
    ELSE s

Strip(s, chars) == RStrip(LStrip(s, chars), chars)

\* str.startswith
StartsWith(s, p) == Len(s) >= Len(p) /\ SubSeq(s, 1, Len(p)) = p

\* str.find(p, from): 1-based index of the first occurrence at or after
\* position from, 0 when there is none (Python's -1)
Find(s, p, from) ==
    LET hits == {i \in from..(Len(s) - Len(p) + 1) :
                    SubSeq(s, i, i + Len(p) - 1) = p}
    IN IF hits = {} THEN 0
       ELSE CHOOSE i \in hits : \A j \in hits : i <= j

\* str.replace(tok, "") for a one-character tok
RECURSIVE RemoveTok(_, _)
RemoveTok(s, tok) ==
    IF s = <<>> THEN <<>>
    ELSE IF Head(s) = tok THEN RemoveTok(Tail(s), tok)
    ELSE <<Head(s)>> \o RemoveTok(Tail(s), tok)

DigitTok == <<"1", "2", "3", "4", "5", "6", "7", "8", "9">>
\* str(n) for n >= 1
RECURSIVE Digits(_)
Digits(n) ==
    IF n < 10 THEN <<(IF n = 0 THEN "0" ELSE DigitTok[n])>>
    ELSE Digits(n \div 10) \o <<(IF n % 10 = 0 THEN "0" ELSE DigitTok[n % 10])>>

\* ------------------------------------------------------- sync_state.py
\* content_hash: SHA-256 is modelled as an injective tagging of the text
content_hash(text) == [sha256 |-> text]

\* a NoteState (sync_state.py:10-15)
NoteState(bear_id, file_path, bear_hash, obsidian_hash) ==
    [bear_id |-> bear_id, file_path |-> file_path,
     bear_hash |-> bear_hash, obsidian_hash |-> obsidian_hash]

\* The store SyncStateManager._notes is a Python dict: a sequence of
\* NoteStates in insertion order, at most one per bear_id.
TrackedIds(notes) == {notes[i].bear_id : i \in 1..Len(notes)}

IndexOf(notes, bid) == CHOOSE i \in 1..Len(notes) : notes[i].bear_id = bid

\* SyncStateManager.get_note (None is modelled by the caller's guard)
get_note(notes, bid) == notes[IndexOf(notes, bid)]

\* SyncStateManager.set_note: dict assignment keeps the position of an
\* existing key and appends a new one
set_note(notes, bear_id, file_path, bear_hash, obsidian_hash) ==
    LET ns == NoteState(bear_id, file_path, bear_hash, obsidian_hash)
    IN IF bear_id \in TrackedIds(notes)
       THEN [notes EXCEPT ![IndexOf(notes, bear_id)] = ns]
       ELSE Append(notes, ns)

\* SyncStateManager.remove_note
remove_note(notes, bid) ==
    SelectSeq(notes, LAMBDA ns : ns.bear_id # bid)

\* mutant: the sort is not stable, a record goes before its equals
RECURSIVE InsertSortedBeforeEqual(_, _)
InsertSortedBeforeEqual(sorted, ns) ==
    IF sorted = <<>> THEN <<ns>>
    ELSE IF ~StrLess(Head(sorted).file_path, ns.file_path)
         THEN <<ns>> \o sorted
         ELSE <<Head(sorted)>>
              \o InsertSortedBeforeEqual(Tail(sorted), ns)

\* sorted(..., key=file_path): a stable insertion sort
RECURSIVE InsertSorted(_, _)
InsertSorted(sorted, ns) ==
    IF sorted = <<>> THEN <<ns>>
    ELSE IF StrLess(ns.file_path, Head(sorted).file_path)
         THEN <<ns>> \o sorted
         ELSE <<Head(sorted)>> \o InsertSorted(Tail(sorted), ns)

RECURSIVE SortByPath(_)
SortByPath(notes) ==
    IF notes = <<>> THEN <<>>
    ELSE InsertSorted(SortByPath(SubSeq(notes, 1, Len(notes) - 1)),
                      notes[Len(notes)])

\* The persisted state document .obsidibear_state.json: absent, or the
\* list under its "notes" key
Missing == [kind |-> "missing", notes |-> <<>>]

\* documents the user, a disk fault or an interrupted write can leave in
\* place of a saved one: not JSON at all; an object without the "notes"
\* key; a "notes" list with an entry that lacks a field
Unparseable == [kind |-> "unparseable", notes |-> <<>>]
NoNotesKey == [kind |-> "no_notes_key", notes |-> <<>>]
BadEntry == [kind |-> "bad_entry", notes |-> <<>>]
CorruptDocs == {Unparseable, NoNotesKey, BadEntry}

\* SyncStateManager.save: the document written to .obsidibear_state.json
save(notes) == [kind |-> "ok", notes |-> SortByPath(notes)]

\* SyncStateManager._load: a missing file is an empty store; entries are
\* assigned into the dict in document order
RECURSIVE LoadEntries(_, _)
LoadEntries(notes, entries) ==
    IF entries = <<>> THEN notes
    ELSE LET e == Head(entries)
         IN LoadEntries(set_note(notes, e.bear_id, e.file_path,
                                 e.bear_hash, e.obsidian_hash),
                        Tail(entries))

_load(doc) ==
    IF doc.kind = "missing" THEN <<>> ELSE LoadEntries(<<>>, doc.notes)

\* _load raises: json.loads on line 45, or entry["..."] on lines 48-51;
\* data.get("notes", []) on line 46 accepts an object without the key
LoadRaises(doc) == doc.kind \in {"unparseable", "bad_entry"}

\* sorted() of a list of identifiers
\* mutant: the list is left in the order the set happened to be iterated
\* in, here the descending one
RECURSIVE IterationOrderIds(_)
IterationOrderIds(S) ==
    IF S = {} THEN <<>>
    ELSE LET m == CHOOSE x \in S : \A y \in S : x >= y
         IN <<m>> \o IterationOrderIds(S \ {m})

RECURSIVE SortedIds(_)
SortedIds(S) ==
    IF S = {} THEN <<>>
    ELSE LET m == CHOOSE x \in S : \A y \in S : x <= y
         IN <<m>> \o SortedIds(S \ {m})

\* mutant: the test for a change on both sides is missing
ClassifyBearFirst(bear_diff, obs_diff) ==
    IF bear_diff THEN "bear_changed"
    ELSE IF obs_diff THEN "obsidian_changed"
    ELSE "unchanged"

\* mutant: a destination change wins over a change on both sides
ClassifyObsFirst(bear_diff, obs_diff) ==
    IF obs_diff THEN "obsidian_changed"
    ELSE IF bear_diff THEN "bear_changed"
    ELSE "unchanged"

\* the if / elif chain of detect_changes for one tracked note
Classify(bear_diff, obs_diff) ==
    IF bear_diff /\ obs_diff THEN "conflicts"
    ELSE IF bear_diff THEN "bear_changed"
    ELSE IF obs_diff THEN "obsidian_changed"
    ELSE "unchanged"

\* mutant: a missing destination hash counts as a destination change
KindOfMissingChanged(notes, bear_notes, obsidian_files, bid) ==
    LET state == get_note(notes, bid)
        bear_diff == bear_notes[bid] # state.bear_hash
        obs_diff == \/ bid \notin DOMAIN obsidian_files
                    \/ obsidian_files[bid] # state.obsidian_hash
    IN Classify(bear_diff, obs_diff)

\* the comparison of one tracked note, detect_changes lines 133-145
KindOf(notes, bear_notes, obsidian_files, bid) ==
    LET state == get_note(notes, bid)
        current_bear_hash == bear_notes[bid]
        current_obs_hash ==
            IF bid \in DOMAIN obsidian_files
            THEN obsidian_files[bid] ELSE state.obsidian_hash
        bear_diff == current_bear_hash # state.bear_hash
        obs_diff == current_obs_hash # state.obsidian_hash
    IN Classify(bear_diff, obs_diff)

\* mutant: every identifier of bear_notes is reported as new
detect_changes_all_new(notes, bear_notes, obsidian_files) ==
    LET all_bear_ids == DOMAIN bear_notes
        all_tracked_ids == TrackedIds(notes)
        both == all_tracked_ids \cap all_bear_ids
        kind(bid) == KindOf(notes, bear_notes, obsidian_files, bid)
    IN [bear_changed |-> SortedIds({b \in both : kind(b) = "bear_changed"}),
        obsidian_changed |->
            SortedIds({b \in both : kind(b) = "obsidian_changed"}),
        conflicts |-> SortedIds({b \in both : kind(b) = "conflicts"}),
        new_in_bear |-> SortedIds(all_bear_ids),
        deleted_in_bear |-> SortedIds(all_tracked_ids \ all_bear_ids)]

\* SyncStateManager.detect_changes; bear_notes and obsidian_files are
\* functions from identifiers to hashes (Python dicts)
detect_changes(notes, bear_notes, obsidian_files) ==
    LET all_bear_ids == DOMAIN bear_notes
        all_tracked_ids == TrackedIds(notes)
        both == all_tracked_ids \cap all_bear_ids
        kind(bid) == KindOf(notes, bear_notes, obsidian_files, bid)
    IN [bear_changed |-> SortedIds({b \in both : kind(b) = "bear_changed"}),
        obsidian_changed |->
            SortedIds({b \in both : kind(b) = "obsidian_changed"}),
        conflicts |-> SortedIds({b \in both : kind(b) = "conflicts"}),
        new_in_bear |-> SortedIds(all_bear_ids \ all_tracked_ids),
        deleted_in_bear |-> SortedIds(all_tracked_ids \ all_bear_ids)]

\* mutant: the notes deleted in Bear are dropped from the store
detect_changes_pruning(notes, bear_notes, obsidian_files) ==
    SelectSeq(notes, LAMBDA ns : ns.bear_id \in DOMAIN bear_notes)

\* self._notes after detect_changes returns: the method only reads it
detect_changes_notes(notes, bear_notes, obsidian_files) == notes

\* -------------------------------------------------------------- markdown.py
\* the five metadata lines between the frontmatter delimiters, one atom
\* per (bear_id, modified) pair; created / archived / pinned are fixed
MetaLines(bear_id, modified) ==
    CASE bear_id = 1 /\ modified = 0 -> "bear_id: 1 modified: 0"
      [] bear_id = 1 /\ modified = 1 -> "bear_id: 1 modified: 1"
      [] bear_id = 2 /\ modified = 0 -> "bear_id: 2 modified: 0"
      [] bear_id = 2 /\ modified = 1 -> "bear_id: 2 modified: 1"
      [] bear_id = 3 /\ modified = 0 -> "bear_id: 3 modified: 0"
      [] bear_id = 3 /\ modified = 1 -> "bear_id: 3 modified: 1"
      [] OTHER -> "bear_id: other"

_build_frontmatter(bear_id, modified) ==
    <<Dashes, LF, MetaLines(bear_id, modified), LF, Dashes, LF>>

\* bear_to_obsidian with an empty attachment_map
bear_to_obsidian(text, bear_id, modified) ==
    _build_frontmatter(bear_id, modified) \o RemoveTok(text, _BRAILLE_BLANK)

\* strip_frontmatter: text.find("\n---\n", 4) starts after the opening
\* "---\n", i.e. at the third token
strip_frontmatter(text) ==
    IF ~StartsWith(text, <<Dashes, LF>>) THEN text
    ELSE LET end == Find(text, <<LF, Dashes, LF>>, 3)
         IN IF end = 0 THEN text
            ELSE SubSeq(text, end + 3, Len(text))

\* obsidian_to_bear with an empty attachment_map
obsidian_to_bear(text) == strip_frontmatter(text)

\* characters of the class [\w/\-]
TagChars == {"a", "A", "x", "y", "_", "/", "-", Dashes,
             "work", "home", "secret",
             "0", "1", "2", "3", "4", "5", "6", "7", "8", "9"}

\* the group captured by a match of (?:^|(?<=\s))#([\w/\-]+) at position i
RECURSIVE TagRun(_, _)
TagRun(text, i) ==
    IF i <= Len(text) /\ text[i] \in TagChars
    THEN <<text[i]>> \o TagRun(text, i + 1)
    ELSE <<>>

\* mutant: the inline markers are not looked at
extract_primary_tag_first_known(text, tags) ==
    IF tags = <<>> THEN <<>> ELSE tags[1]

\* extract_primary_tag; None is modelled as <<>> (both are falsy in
\* _export_note)
extract_primary_tag(text, tags) ==
    IF tags = <<>> THEN <<>>
    ELSE LET tag_set == {tags[k] : k \in 1..Len(tags)}
             matches == {i \in 1..Len(text) :
                            /\ text[i] = "#"
                            /\ (i = 1 \/ text[i - 1] \in Whitespace)
                            /\ TagRun(text, i + 1) # <<>>}
             hits == {i \in matches : TagRun(text, i + 1) \in tag_set}
         IN IF hits # {}
            THEN TagRun(text, 1 + CHOOSE i \in hits : \A j \in hits : i <= j)
            ELSE tags[1]

\* ------------------------------------------------------------- filenames.py
\* [<>:"/\\|?*\x00-\x1f]
_INVALID_CHARS == {":", "/", LF}

\* re.sub(r"[_ ]{2,}", " ", name)
RECURSIVE RunLen(_)
RunLen(s) ==
    IF s # <<>> /\ Head(s) \in {"_", " "} THEN 1 + RunLen(Tail(s)) ELSE 0

\* every maximal run of two or more of "_" and " " becomes one " ": its
\* first character is replaced, the others are dropped
Collapse(s) ==
    LET starts(i) == i = 1 \/ s[i - 1] \notin {"_", " "}
        sub == [i \in 1..Len(s) |->
                  IF s[i] \notin {"_", " "} THEN s[i]
                  ELSE IF ~starts(i) THEN ""
                  ELSE IF RunLen(SubSeq(s, i, Len(s))) >= 2 THEN " "
                  ELSE s[i]]
    IN SelectSeq(sub, LAMBDA t : t # "")

\* lines 18-19 and 29-30: if not name, "Untitled"
OrUntitled(name) == IF name = <<>> THEN Untitled ELSE name

\* line 22: _INVALID_CHARS.sub("_", name)
ReplaceInvalid(name) ==
    [i \in 1..Len(name) |->
        IF name[i] \in _INVALID_CHARS THEN "_" ELSE name[i]]

\* lines 33-35: name[:_MAX_NAME_LEN].rstrip(". ")
Truncate(name) ==
    IF Len(name) > _MAX_NAME_LEN
    THEN RStrip(SubSeq(name, 1, _MAX_NAME_LEN), {".", " "})
    ELSE name

sanitize_title(title) ==
    Truncate(OrUntitled(Strip(Collapse(ReplaceInvalid(
        OrUntitled(Strip(title, Whitespace)))), {".", " "})))

\* folder / f"{name}.md"
PathJoin(folder, name) == folder \o <<"/">> \o name \o MdExt

\* Path(p).parent and Path(p).stem of a relative path folder/name.md
LastSlash(p) ==
    CHOOSE i \in 1..Len(p) :
        p[i] = "/" /\ \A j \in (i + 1)..Len(p) : p[j] # "/"
PathParent(p) == SubSeq(p, 1, LastSlash(p) - 1)
LastDot(p) ==
    CHOOSE i \in 1..Len(p) :
        p[i] = "." /\ \A j \in (i + 1)..Len(p) : p[j] # "."
PathStem(p) == SubSeq(p, LastSlash(p) + 1, LastDot(p) - 1)

\* FilenameDeduplicator._used is a dict lowercase path -> count, modelled
\* as a function; get_unique_path returns the path and the updated dict
\* mutant: the suffixed candidate is taken without looking it up
CascadeNever(used, folder, base, n) == n

RECURSIVE Cascade(_, _, _, _)
Cascade(used, folder, base, n) ==
    IF Lower(PathJoin(folder, base \o <<" ">> \o Digits(n))) \in DOMAIN used
    THEN Cascade(used, folder, base, n + 1)
    ELSE n

Put(f, k, v) == [x \in DOMAIN f \cup {k} |-> IF x = k THEN v ELSE f[x]]

\* mutant: the count is read before it is incremented, so the first
\* duplicate gets the suffix 1
UniquePathFromOne(used, folder, base) ==
    LET candidate == PathJoin(folder, base)
        key == Lower(candidate)
    IN IF key \notin DOMAIN used
       THEN [path |-> candidate, used |-> Put(used, key, 1)]
       ELSE LET used2 == Put(used, key, used[key] + 1)
                n == Cascade(used2, folder, base, used[key])
                cand2 == PathJoin(folder, base \o <<" ">> \o Digits(n))
            IN [path |-> cand2, used |-> Put(used2, Lower(cand2), 1)]

\* get_unique_path for a title already sanitized to base
UniquePath(used, folder, base) ==
    LET candidate == PathJoin(folder, base)
        key == Lower(candidate)
    IN IF key \notin DOMAIN used
       THEN [path |-> candidate, used |-> Put(used, key, 1)]
       ELSE LET used2 == Put(used, key, used[key] + 1)
                n == Cascade(used2, folder, base, used2[key])
                cand2 == PathJoin(folder, base \o <<" ">> \o Digits(n))
            IN [path |-> cand2, used |-> Put(used2, Lower(cand2), 1)]

get_unique_path(used, folder, title) ==
    UniquePath(used, folder, sanitize_title(title))

\* -------------------------------------------------------------- exporter.py
\* tag_to_folder: tag.strip("#/").strip()
tag_to_folder(tag) ==
    LET clean == Strip(Strip(tag, {"#", "/"}), Whitespace)
    IN IF clean = <<>> THEN UntaggedFolder ELSE clean

\* ------------------------------------------------------------------ state
VARIABLES
    bear,        \* source store: the rows of ZSFNOTE that are not trashed,
                 \* in primary-key order
    vault,       \* destination tree: relative path -> file content
    state_file,  \* the persisted state document
    inflight,    \* write-backs requested from Bear that have not landed
    run,         \* what the last command did (trace of one run)
    since,       \* sides edited by the user since the last command
    edits,       \* number of events of the environment so far (user
                 \* edits and faults)
    runs,        \* number of commands run so far
    faults,      \* number of faults so far (failed write, unreachable
                 \* database, damaged file, killed process)
    dcNotes,     \* detect_changes: the store it is called on
    dcBear,      \* detect_changes: argument bear_notes
    dcObs,       \* detect_changes: argument obsidian_files
    dcOut,       \* detect_changes: the report returned
    dcPc,        \* "args" before the call of detect_changes, "done" after
    fnUsed,      \* FilenameDeduplicator._used of one instance
    fnIn,        \* the (folder, title) arguments of its calls so far
    fnOut,       \* the paths its calls returned, in call order
    stOrig,      \* a store as it was before its first save
    stNotes,     \* SyncStateManager._notes of the current instance
    stDocs,      \* the documents save() wrote, in order
    cvBody,      \* a note body handed to bear_to_obsidian
    cvId,        \* the bear_id handed to bear_to_obsidian
    cvMod,       \* the modification time handed to bear_to_obsidian
    cvDoc,       \* the document bear_to_obsidian returned
    cvBack,      \* the body converted back from cvDoc
    cvPc,        \* "body", then "doc", then "back" (obsidian_to_bear) or
                 \* "stripped" (strip_frontmatter)
    plText,      \* the text of a note to be filed
    plTags,      \* the tags of that note
    plFolder,    \* the folder _export_note files it under
    status,      \* the report of a status command run since the last
                 \* change of anything, if there was one
    plPc         \* "note" before the folder is chosen, "filed" after

vars == <<bear, vault, state_file, inflight, run, since, edits, runs,
          faults, dcNotes, dcBear, dcObs, dcOut, dcPc,
          fnUsed, fnIn, fnOut, stOrig, stNotes, stDocs,
          cvBody, cvId, cvMod, cvDoc, cvBack, cvPc,
          plText, plTags, plFolder, plPc, status>>
mainVars == <<bear, vault, state_file, inflight, run, since, edits, runs,
              faults, status>>
dcVars == <<dcNotes, dcBear, dcObs, dcOut, dcPc>>
fnVars == <<fnUsed, fnIn, fnOut>>
stVars == <<stOrig, stNotes, stDocs>>
cvVars == <<cvBody, cvId, cvMod, cvDoc, cvBack, cvPc>>
plVars == <<plText, plTags, plFolder, plPc>>
pureVars == <<dcVars, fnVars, stVars, cvVars, plVars>>

\* ------------------------------------------------------------ input domains
Ids == 1..NumIds
Work == <<"work">>
Home == <<"home">>
Secret == <<"secret">>
Titles == {<<"a">>, <<"A">>}
TagLists == {<<>>, <<Work, Home>>, <<Secret>>}
Bodies == {<<"x">>, <<"#", "home", LF, "x", _BRAILLE_BLANK>>}
Mods == {0, 1}

\* config.py: Config.exclude_tags of the modelled vault
exclude_tags == {Secret}

\* --------------------------------------------------------------- bear_db.py
\* a BearNote without attachments
BearNote(uuid, title, text, modified, tags) ==
    [uuid |-> uuid, title |-> title, text |-> text,
     modified |-> modified, tags |-> tags]

\* fetch_all_notes: the snapshot, in row order
fetch_all_notes(db) == db

Uuids(db) == {db[i].uuid : i \in 1..Len(db)}
RowOf(db, uuid) == CHOOSE i \in 1..Len(db) : db[i].uuid = uuid

\* notes_by_id[bid] / fetch_note_by_uuid for a note that is present
fetch_note_by_uuid(db, uuid) == db[RowOf(db, uuid)]

\* ------------------------------------------------- exporter.py: one note
EmptyFn == [x \in {} |-> 0]
SeqToSet(q) == {q[i] : i \in 1..Len(q)}

\* the exclusion test of export_all / pull_changes
Excluded(note) ==
    /\ exclude_tags # {}
    /\ \E k \in 1..Len(note.tags) : note.tags[k] \in exclude_tags

\* _export_note, lines 108-113: the folder of the primary tag
NoteFolder(note) ==
    LET primary_tag == extract_primary_tag(note.text, note.tags)
    IN IF primary_tag # <<>> THEN tag_to_folder(primary_tag)
       ELSE UntaggedFolder

\* the accumulated effect of a run of export_all / pull_changes
ExportAcc(files, notes, used) ==
    [vault |-> files, notes |-> notes, used |-> used, written |-> <<>>,
     sets |-> <<>>, errors |-> <<>>, ok |-> 0]

\* mutant: the destination hash is taken from the body, not from the
\* document written
_export_note_body_hash(acc, note, fails) ==
    LET folder == NoteFolder(note)
        obsidian_content ==
            bear_to_obsidian(note.text, note.uuid, note.modified)
        u == get_unique_path(acc.used, folder, note.title)
    IN IF fails
       THEN [acc EXCEPT !.used = u.used, !.errors = Append(@, note.uuid)]
       ELSE [acc EXCEPT
                !.used = u.used,
                !.vault = Put(@, u.path, obsidian_content),
                !.written = Append(@, u.path),
                !.notes = set_note(@, note.uuid, u.path,
                                   content_hash(note.text),
                                   content_hash(note.text)),
                !.sets = Append(@, note.uuid),
                !.ok = @ + 1]

\* mutant: the source hash is taken from the document written, not from
\* the body
_export_note_doc_hash(acc, note, fails) ==
    LET folder == NoteFolder(note)
        obsidian_content ==
            bear_to_obsidian(note.text, note.uuid, note.modified)
        u == get_unique_path(acc.used, folder, note.title)
    IN IF fails
       THEN [acc EXCEPT !.used = u.used, !.errors = Append(@, note.uuid)]
       ELSE [acc EXCEPT
                !.used = u.used,
                !.vault = Put(@, u.path, obsidian_content),
                !.written = Append(@, u.path),
                !.notes = set_note(@, note.uuid, u.path,
                                   content_hash(obsidian_content),
                                   content_hash(obsidian_content)),
                !.sets = Append(@, note.uuid),
                !.ok = @ + 1]

\* _export_note; fails = write_text raises (the name is already issued)
_export_note(acc, note, fails) ==
    LET folder == NoteFolder(note)
        obsidian_content ==
            bear_to_obsidian(note.text, note.uuid, note.modified)
        u == get_unique_path(acc.used, folder, note.title)
    IN IF fails
       THEN [acc EXCEPT !.used = u.used, !.errors = Append(@, note.uuid)]
       ELSE [acc EXCEPT
                !.used = u.used,
                !.vault = Put(@, u.path, obsidian_content),
                !.written = Append(@, u.path),
                !.notes = set_note(@, note.uuid, u.path,
                                   content_hash(note.text),
                                   content_hash(obsidian_content)),
                !.sets = Append(@, note.uuid),
                !.ok = @ + 1]

\* export_all, lines 59-79
RECURSIVE ExportLoop(_, _, _)
ExportLoop(acc, notes, bad) ==
    IF notes = <<>> THEN acc
    ELSE LET note == Head(notes)
         IN IF Excluded(note) THEN ExportLoop(acc, Tail(notes), bad)
            ELSE ExportLoop(_export_note(acc, note, note.uuid \in bad),
                            Tail(notes), bad)

\* pull_changes, lines 177-180
RECURSIVE RegisterPaths(_, _)
RegisterPaths(used, notes) ==
    IF notes = <<>> THEN used
    ELSE LET p == Head(notes).file_path
         IN RegisterPaths(
                get_unique_path(used, PathParent(p), PathStem(p)).used,
                Tail(notes))

\* pull_changes, lines 183-188: hashes of the notes that are not excluded
PullBearHashes(db) ==
    [u \in {db[i].uuid : i \in {j \in 1..Len(db) : ~Excluded(db[j])}} |->
        content_hash(fetch_note_by_uuid(db, u).text)]

\* push_changes line 42, cmd_status line 126: hashes of all notes
AllBearHashes(db) ==
    [u \in Uuids(db) |-> content_hash(fetch_note_by_uuid(db, u).text)]

\* lines 190-195 (and pusher.py 44-50): hashes of the tracked files that exist
ObsHashes(notes, files) ==
    [b \in {notes[i].bear_id :
              i \in {j \in 1..Len(notes) :
                        notes[j].file_path \in DOMAIN files}} |->
        content_hash(files[get_note(notes, b).file_path])]

\* pull_changes, lines 200-210
RECURSIVE PullNewLoop(_, _, _, _)
PullNewLoop(acc, ids, db, bad) ==
    IF ids = <<>> THEN acc
    ELSE LET bid == Head(ids)
         IN IF bid \notin Uuids(db) \/ Excluded(fetch_note_by_uuid(db, bid))
            THEN PullNewLoop(acc, Tail(ids), db, bad)
            ELSE PullNewLoop(
                    _export_note(acc, fetch_note_by_uuid(db, bid),
                                 bid \in bad),
                    Tail(ids), db, bad)

\* mutant: a changed note is exported again under a freshly issued name
PullOneNewPath(acc, note, fails) == _export_note(acc, note, fails)

\* pull_changes, lines 213-247, for one identifier of bear_changed
PullOne(acc, note, fails) ==
    LET ns == get_note(acc.notes, note.uuid)
        obsidian_content ==
            bear_to_obsidian(note.text, note.uuid, note.modified)
    IN IF fails THEN [acc EXCEPT !.errors = Append(@, note.uuid)]
       ELSE [acc EXCEPT
                !.vault = Put(@, ns.file_path, obsidian_content),
                !.written = Append(@, ns.file_path),
                !.notes = set_note(@, note.uuid, ns.file_path,
                                   content_hash(note.text),
                                   content_hash(obsidian_content)),
                !.sets = Append(@, note.uuid),
                !.ok = @ + 1]

RECURSIVE PullChangedLoop(_, _, _, _)
PullChangedLoop(acc, ids, db, bad) ==
    IF ids = <<>> THEN acc
    ELSE LET bid == Head(ids)
         IN IF bid \notin Uuids(db) \/ bid \notin TrackedIds(acc.notes)
            THEN PullChangedLoop(acc, Tail(ids), db, bad)
            ELSE PullChangedLoop(
                    PullOne(acc, fetch_note_by_uuid(db, bid), bid \in bad),
                    Tail(ids), db, bad)

\* ---------------------------------------------------------------- pusher.py
\* what the external write-back does with one request:
\*   lands   - Bear replaces the note text before the verification re-read
\*   raises  - `open` exits non-zero, subprocess.run raises
\*   noop    - the request is accepted and silently dropped
\*   late    - Bear applies the request after the verification re-read
\*   trashed - the note is no longer active when it is re-read
Outcomes == {"lands", "raises", "noop", "late", "trashed"}

\* Bear applying a replace_all request: new text, new modification date
ApplyWriteBack(db, bid, text) ==
    IF bid \notin Uuids(db) THEN db
    ELSE [db EXCEPT ![RowOf(db, bid)] =
             [@ EXCEPT !.text = text, !.modified = 1 - @]]

RemoveRow(db, uuid) == SelectSeq(db, LAMBDA n : n.uuid # uuid)

PushAcc(db, notes, pending) ==
    [db |-> db, notes |-> notes, inflight |-> pending, pushed |-> <<>>,
     sets |-> <<>>, errors |-> <<>>, ok |-> 0, reopened |-> 0]

\* mutant: the whole file, metadata block included, is sent to Bear
PushOneWholeFile(acc, bid, files, dry_run, outcome) ==
    LET ns == get_note(acc.notes, bid)
        obsidian_content == files[ns.file_path]
        bear_content == obsidian_content
        db2 == CASE outcome = "lands" ->
                        ApplyWriteBack(acc.db, bid, bear_content)
                 [] outcome = "trashed" -> RemoveRow(acc.db, bid)
                 [] OTHER -> acc.db
        found == bid \in Uuids(db2)
    IN IF ns.file_path \notin DOMAIN files
       THEN [acc EXCEPT !.errors = Append(@, bid)]
       ELSE IF dry_run THEN [acc EXCEPT !.ok = @ + 1]
       ELSE IF outcome = "raises"
       THEN [acc EXCEPT !.pushed = Append(@, bid),
                        !.errors = Append(@, bid)]
       ELSE IF found
       THEN [acc EXCEPT
                !.db = db2,
                !.inflight = IF outcome = "late"
                             THEN @ \cup {[id |-> bid, text |-> bear_content]}
                             ELSE @,
                !.pushed = Append(@, bid),
                !.reopened = @ + 1,
                !.notes = set_note(@, bid, ns.file_path,
                              content_hash(fetch_note_by_uuid(db2, bid).text),
                              content_hash(obsidian_content)),
                !.sets = Append(@, bid),
                !.ok = @ + 1]
       ELSE [acc EXCEPT !.db = db2,
                        !.pushed = Append(@, bid),
                        !.reopened = @ + 1,
                        !.errors = Append(@, bid)]

\* push_changes, lines 62-107, for one identifier of obsidian_changed
PushOne(acc, bid, files, dry_run, outcome) ==
    LET ns == get_note(acc.notes, bid)
        obsidian_content == files[ns.file_path]
        bear_content == strip_frontmatter(obsidian_content)
        db2 == CASE outcome = "lands" ->
                        ApplyWriteBack(acc.db, bid, bear_content)
                 [] outcome = "trashed" -> RemoveRow(acc.db, bid)
                 [] OTHER -> acc.db
        found == bid \in Uuids(db2)
    IN IF ns.file_path \notin DOMAIN files
       THEN [acc EXCEPT !.errors = Append(@, bid)]
       ELSE IF dry_run THEN [acc EXCEPT !.ok = @ + 1]
       ELSE IF outcome = "raises"
       THEN [acc EXCEPT !.pushed = Append(@, bid),
                        !.errors = Append(@, bid)]
       ELSE IF found
       THEN [acc EXCEPT
                !.db = db2,
                !.inflight = IF outcome = "late"
                             THEN @ \cup {[id |-> bid, text |-> bear_content]}
                             ELSE @,
                !.pushed = Append(@, bid),
                !.reopened = @ + 1,
                !.notes = set_note(@, bid, ns.file_path,
                              content_hash(fetch_note_by_uuid(db2, bid).text),
                              content_hash(obsidian_content)),
                !.sets = Append(@, bid),
                !.ok = @ + 1]
       ELSE [acc EXCEPT !.db = db2,
                        !.pushed = Append(@, bid),
                        !.reopened = @ + 1,
                        !.errors = Append(@, bid)]

RECURSIVE PushLoop(_, _, _, _, _)
PushLoop(acc, ids, files, dry_run, outcome) ==
    IF ids = <<>> THEN acc
    ELSE LET bid == Head(ids)
         IN IF bid \notin TrackedIds(acc.notes)
            THEN PushLoop(acc, Tail(ids), files, dry_run, outcome)
            ELSE PushLoop(PushOne(acc, bid, files, dry_run, outcome[bid]),
                          Tail(ids), files, dry_run, outcome)

\* ------------------------------------------------------------ the commands
NoReport ==
    [bear_changed |-> <<>>, obsidian_changed |-> <<>>, conflicts |-> <<>>,
     new_in_bear |-> <<>>, deleted_in_bear |-> <<>>]

NoRun ==
    [cmd |-> "none", dry_run |-> FALSE, changes |-> NoReport,
     written |-> <<>>, pushed |-> <<>>, sets |-> <<>>, saves |-> 0,
     conflicts |-> 0, ok |-> 0, errors |-> <<>>, outcome |-> EmptyFn,
     fatal |-> "none", opened |-> 0, closed |-> 0, loads |-> 0]

InScopeIds(db) == {db[i].uuid : i \in {j \in 1..Len(db) : ~Excluded(db[j])}}

\* mutant: the state is saved after every note as well
export_all_saving_each(bad) ==
    LET acc == ExportLoop(ExportAcc(vault, _load(state_file), EmptyFn),
                          fetch_all_notes(bear), bad)
    IN /\ vault' = acc.vault
       /\ state_file' = save(acc.notes)
       /\ run' = [NoRun EXCEPT !.cmd = "export_all",
                               !.written = acc.written, !.sets = acc.sets,
                               !.saves = acc.ok + 1, !.ok = acc.ok,
                               !.errors = acc.errors,
                               !.opened = 1, !.closed = 1, !.loads = 1]
       /\ UNCHANGED <<bear, inflight>>

\* export_all (the init command); bad = notes whose file write fails
export_all(bad) ==
    LET acc == ExportLoop(ExportAcc(vault, _load(state_file), EmptyFn),
                          fetch_all_notes(bear), bad)
    IN /\ vault' = acc.vault
       /\ state_file' = save(acc.notes)
       /\ run' = [NoRun EXCEPT !.cmd = "export_all",
                               !.written = acc.written, !.sets = acc.sets,
                               !.saves = 1, !.ok = acc.ok,
                               !.errors = acc.errors,
                               !.opened = 1, !.closed = 1, !.loads = 1]
       /\ UNCHANGED <<bear, inflight>>

\* mutant: the notes changed on both sides are pulled as well
pull_changes_with_conflicts(bad) ==
    LET notes == fetch_all_notes(bear)
        state == _load(state_file)
        dedup == RegisterPaths(EmptyFn, state)
        changes == detect_changes(state, PullBearHashes(notes),
                                  ObsHashes(state, vault))
        acc1 == PullNewLoop(ExportAcc(vault, state, dedup),
                            changes.new_in_bear, notes, bad)
        acc == PullChangedLoop(acc1,
                               changes.bear_changed \o changes.conflicts,
                               notes, bad)
    IN /\ vault' = acc.vault
       /\ state_file' = save(acc.notes)
       /\ run' = [NoRun EXCEPT !.cmd = "pull", !.changes = changes,
                               !.written = acc.written, !.sets = acc.sets,
                               !.saves = 1,
                               !.conflicts = Len(changes.conflicts),
                               !.ok = acc.ok, !.errors = acc.errors,
                               !.opened = 1, !.closed = 1, !.loads = 1]
       /\ UNCHANGED <<bear, inflight>>

\* pull_changes
pull_changes(bad) ==
    LET notes == fetch_all_notes(bear)
        state == _load(state_file)
        dedup == RegisterPaths(EmptyFn, state)
        changes == detect_changes(state, PullBearHashes(notes),
                                  ObsHashes(state, vault))
        acc1 == PullNewLoop(ExportAcc(vault, state, dedup),
                            changes.new_in_bear, notes, bad)
        acc == PullChangedLoop(acc1, changes.bear_changed, notes, bad)
    IN /\ vault' = acc.vault
       /\ state_file' = save(acc.notes)
       /\ run' = [NoRun EXCEPT !.cmd = "pull", !.changes = changes,
                               !.written = acc.written, !.sets = acc.sets,
                               !.saves = 1,
                               !.conflicts = Len(changes.conflicts),
                               !.ok = acc.ok, !.errors = acc.errors,
                               !.opened = 1, !.closed = 1, !.loads = 1]
       /\ UNCHANGED <<bear, inflight>>

\* the report push_changes computes, lines 40-52
PushReport ==
    detect_changes(_load(state_file), AllBearHashes(fetch_all_notes(bear)),
                   ObsHashes(_load(state_file), vault))

\* cli.py, cmd_status lines 123-135: the report it prints, built from the
\* hashes of all notes
cmd_status ==
    detect_changes(_load(state_file), AllBearHashes(fetch_all_notes(bear)),
                   ObsHashes(_load(state_file), vault))

\* no status report at hand
NoStatus == [shown |-> FALSE, changes |-> NoReport]

\* push_changes; outcome = what the write-back does for each pushed note
push_changes(dry_run, outcome) ==
    LET state == _load(state_file)
        changes == PushReport
        acc == PushLoop(PushAcc(bear, state, inflight),
                        changes.obsidian_changed, vault, dry_run, outcome)
    IN /\ bear' = acc.db
       /\ inflight' = acc.inflight
       /\ state_file' = save(acc.notes)
       /\ run' = [NoRun EXCEPT !.cmd = "push", !.dry_run = dry_run,
                               !.changes = changes,
                               !.pushed = acc.pushed, !.sets = acc.sets,
                               !.saves = 1,
                               !.conflicts = Len(changes.conflicts),
                               !.ok = acc.ok, !.errors = acc.errors,
                               !.outcome = IF dry_run THEN EmptyFn
                                           ELSE outcome,
                               !.opened = 1 + acc.reopened,
                               !.closed = 1 + acc.reopened, !.loads = 1]
       /\ UNCHANGED vault

\* pull_changes killed after its last note and before state.save() on
\* line 256: the files are written, the document is the old one
pull_crash(bad) ==
    LET notes == fetch_all_notes(bear)
        state == _load(state_file)
        dedup == RegisterPaths(EmptyFn, state)
        changes == detect_changes(state, PullBearHashes(notes),
                                  ObsHashes(state, vault))
        acc1 == PullNewLoop(ExportAcc(vault, state, dedup),
                            changes.new_in_bear, notes, bad)
        acc == PullChangedLoop(acc1, changes.bear_changed, notes, bad)
    IN /\ vault' = acc.vault
       /\ run' = [NoRun EXCEPT !.cmd = "pull", !.changes = changes,
                               !.written = acc.written, !.sets = acc.sets,
                               !.conflicts = Len(changes.conflicts),
                               !.ok = acc.ok, !.errors = acc.errors,
                               !.fatal = "crash",
                               !.opened = 1, !.loads = 1]
       /\ UNCHANGED <<bear, inflight, state_file>>

\* push_changes killed after its last note and before state.save() on
\* line 109: the write-backs are done, the document is the old one
push_crash(outcome) ==
    LET state == _load(state_file)
        changes == PushReport
        acc == PushLoop(PushAcc(bear, state, inflight),
                        changes.obsidian_changed, vault, FALSE, outcome)
    IN /\ bear' = acc.db
       /\ inflight' = acc.inflight
       /\ run' = [NoRun EXCEPT !.cmd = "push", !.changes = changes,
                               !.pushed = acc.pushed, !.sets = acc.sets,
                               !.conflicts = Len(changes.conflicts),
                               !.ok = acc.ok, !.errors = acc.errors,
                               !.outcome = outcome, !.fatal = "crash",
                               !.opened = 1 + acc.reopened,
                               !.closed = acc.reopened, !.loads = 1]
       /\ UNCHANGED <<vault, state_file>>

\* fp.read_text raises for some tracked file (exporter.py:193-195,
\* pusher.py:48-50)
Readable(content) == Undecodable \notin SeqToSet(content)
ReadRaises(notes, files) ==
    \E i \in 1..Len(notes) :
        /\ notes[i].file_path \in DOMAIN files
        /\ ~Readable(files[notes[i].file_path])

\* the exception that ends a command before its first note, if any:
\* open_bear_db raises, SyncStateManager(vault) raises, or building
\* obs_hashes raises
Fatal(cmd, db_up) ==
    IF ~db_up THEN "db"
    ELSE IF LoadRaises(state_file) THEN "state"
    ELSE IF cmd # "export_all" /\ ReadRaises(_load(state_file), vault)
    THEN "read"
    ELSE "none"

\* the command ends with that exception: the connection is closed by the
\* finally clause only when the try block was entered
abort(cmd, dry_run, why) ==
    /\ run' = [NoRun EXCEPT !.cmd = cmd, !.dry_run = dry_run,
                            !.fatal = why,
                            !.opened = IF why = "db" THEN 0 ELSE 1,
                            !.closed = IF why = "read" THEN 1 ELSE 0,
                            !.loads = IF why = "db" THEN 0 ELSE 1]
    /\ UNCHANGED <<bear, vault, state_file, inflight>>

\* the faults a command can meet while the budget lasts
\* a fault is an event of the environment and counts as one of its edits
FaultAllowed == faults < MaxFaults /\ edits < MaxEdits
DbStates == IF FaultAllowed THEN BOOLEAN ELSE {TRUE}
WriteFailures ==
    IF FaultAllowed THEN {{}} \cup {{u} : u \in Uuids(bear)} ELSE {{}}

ExportAll ==
    /\ runs < MaxRuns
    /\ \E db_up \in DbStates :
          IF Fatal("export_all", db_up) # "none"
          THEN /\ abort("export_all", FALSE, Fatal("export_all", db_up))
               /\ faults' = IF db_up THEN faults ELSE faults + 1
          ELSE \E bad \in WriteFailures :
                  /\ export_all(bad)
                  /\ faults' = faults + Cardinality(bad)
    /\ edits' = edits + (faults' - faults)
    /\ runs' = runs + 1
    /\ since' = {}
    /\ status' = NoStatus
    /\ UNCHANGED pureVars

Pull ==
    /\ runs < MaxRuns
    /\ \E db_up \in DbStates :
          IF Fatal("pull", db_up) # "none"
          THEN /\ abort("pull", FALSE, Fatal("pull", db_up))
               /\ faults' = IF db_up THEN faults ELSE faults + 1
          ELSE \E bad \in WriteFailures :
                  /\ pull_changes(bad)
                  /\ faults' = faults + Cardinality(bad)
    /\ edits' = edits + (faults' - faults)
    /\ runs' = runs + 1
    /\ since' = {}
    /\ status' = NoStatus
    /\ UNCHANGED pureVars

PullCrash ==
    /\ runs < MaxRuns
    /\ FaultAllowed
    /\ Fatal("pull", TRUE) = "none"
    /\ pull_crash({})
    /\ faults' = faults + 1
    /\ edits' = edits + 1
    /\ since' = {}
    /\ status' = NoStatus
    /\ UNCHANGED <<runs, pureVars>>

Push ==
    /\ runs < MaxRuns
    /\ \E db_up \in DbStates :
          IF Fatal("push", db_up) # "none"
          THEN /\ abort("push", FALSE, Fatal("push", db_up))
               /\ faults' = IF db_up THEN faults ELSE faults + 1
          ELSE /\ \E outcome \in [SeqToSet(PushReport.obsidian_changed)
                                     -> Outcomes] :
                     push_changes(FALSE, outcome)
               /\ faults' = faults
    /\ edits' = edits + (faults' - faults)
    /\ runs' = runs + 1
    /\ since' = {}
    /\ status' = NoStatus
    /\ UNCHANGED pureVars

PushCrash ==
    /\ runs < MaxRuns
    /\ FaultAllowed
    /\ Fatal("push", TRUE) = "none"
    /\ push_crash([b \in SeqToSet(PushReport.obsidian_changed) |-> "lands"])
    /\ faults' = faults + 1
    /\ edits' = edits + 1
    /\ since' = {}
    /\ status' = NoStatus
    /\ UNCHANGED <<runs, pureVars>>

PushDryRun ==
    /\ runs < MaxRuns
    /\ \E db_up \in DbStates :
          IF Fatal("push", db_up) # "none"
          THEN /\ abort("push", TRUE, Fatal("push", db_up))
               /\ faults' = IF db_up THEN faults ELSE faults + 1
          ELSE /\ push_changes(TRUE,
                     [b \in SeqToSet(PushReport.obsidian_changed) |-> "noop"])
               /\ faults' = faults
    /\ edits' = edits + (faults' - faults)
    /\ runs' = runs + 1
    /\ since' = {}
    /\ status' = NoStatus
    /\ UNCHANGED pureVars

\* ------------------------------------------------- the user, and Bear itself
\* the status command: it changes nothing and prints its report, unless
\* the database, the state document or a tracked file cannot be read
Status ==
    /\ Fatal("status", TRUE) = "none"
    /\ status' = [shown |-> TRUE, changes |-> cmd_status]
    /\ UNCHANGED <<bear, vault, state_file, inflight, run, since, edits, runs,
                   faults, pureVars>>

\* a note is created in Bear
BearCreate ==
    /\ edits < MaxEdits
    /\ \E u \in Ids \ Uuids(bear), title \in Titles, tags \in TagLists,
          text \in Bodies :
          bear' = Append(bear, BearNote(u, title, text, 0, tags))
    /\ edits' = edits + 1
    /\ since' = since \cup {"bear"}
    /\ status' = NoStatus
    /\ UNCHANGED <<vault, state_file, inflight, run, runs, faults, pureVars>>

\* a note's body is edited in Bear
BearEdit ==
    /\ edits < MaxEdits
    /\ \E i \in 1..Len(bear), text \in Bodies :
          /\ text # bear[i].text
          /\ bear' = [bear EXCEPT ![i] =
                         [@ EXCEPT !.text = text, !.modified = 1 - @]]
    /\ edits' = edits + 1
    /\ since' = since \cup {"bear"}
    /\ status' = NoStatus
    /\ UNCHANGED <<vault, state_file, inflight, run, runs, faults, pureVars>>

\* a note is trashed in Bear
BearTrash ==
    /\ edits < MaxEdits
    /\ \E i \in 1..Len(bear) : bear' = RemoveRow(bear, bear[i].uuid)
    /\ edits' = edits + 1
    /\ since' = since \cup {"bear"}
    /\ status' = NoStatus
    /\ UNCHANGED <<vault, state_file, inflight, run, runs, faults, pureVars>>

\* a delayed write-back lands in Bear
WriteBackLands ==
    /\ \E w \in inflight :
          /\ bear' = ApplyWriteBack(bear, w.id, w.text)
          /\ inflight' = inflight \ {w}
    /\ since' = since \cup {"bear"}
    /\ status' = NoStatus
    /\ UNCHANGED <<vault, state_file, run, edits, runs, faults, pureVars>>

\* the body of a file is edited in the vault, keeping or dropping the
\* frontmatter block
ObsEdit ==
    /\ edits < MaxEdits
    /\ \E p \in DOMAIN vault, body \in Bodies, keep \in BOOLEAN :
          LET old == vault[p]
              head == SubSeq(old, 1, Len(old) - Len(strip_frontmatter(old)))
              new == IF keep THEN head \o body ELSE body
          IN /\ new # old
             /\ vault' = [vault EXCEPT ![p] = new]
    /\ edits' = edits + 1
    /\ since' = since \cup {"obsidian"}
    /\ status' = NoStatus
    /\ UNCHANGED <<bear, state_file, inflight, run, runs, faults, pureVars>>

\* a file is deleted from the vault
ObsDelete ==
    /\ edits < MaxEdits
    /\ \E p \in DOMAIN vault :
          vault' = [q \in DOMAIN vault \ {p} |-> vault[q]]
    /\ edits' = edits + 1
    /\ since' = since \cup {"obsidian"}
    /\ status' = NoStatus
    /\ UNCHANGED <<bear, state_file, inflight, run, runs, faults, pureVars>>

\* a tracked file is replaced by bytes that are not valid UTF-8
ObsGarble ==
    /\ FaultAllowed
    /\ \E p \in DOMAIN vault :
          /\ Readable(vault[p])
          /\ vault' = [vault EXCEPT ![p] = <<Undecodable>>]
    /\ faults' = faults + 1
    /\ since' = since \cup {"obsidian"}
    /\ edits' = edits + 1
    /\ status' = NoStatus
    /\ UNCHANGED <<bear, state_file, inflight, run, runs, pureVars>>

\* the state document is damaged
CorruptStateFile ==
    /\ FaultAllowed
    /\ state_file.kind = "ok"
    /\ state_file' \in CorruptDocs
    /\ faults' = faults + 1
    /\ edits' = edits + 1
    /\ status' = NoStatus
    /\ UNCHANGED <<bear, vault, inflight, run, since, runs, pureVars>>

\* The Bear databases a first command can find: empty; two notes in
\* different folders; two notes whose titles differ only in case, stored in
\* the reverse order of their identifiers; a note carrying an excluded tag;
\* two notes with one title of the greatest length a file name keeps.
TagBody == <<"#", "home", LF, "x", _BRAILLE_BLANK>>
\* a title of _MAX_NAME_LEN characters
LongTitle == [i \in 1.._MAX_NAME_LEN |-> "a"]
InitialStores ==
    {<<>>,
     <<BearNote(1, <<"a">>, TagBody, 0, <<Work, Home>>),
       BearNote(2, <<"A">>, <<"x">>, 0, <<>>)>>,
     <<BearNote(2, <<"A">>, <<"x">>, 0, <<>>),
       BearNote(1, <<"a">>, <<"x">>, 0, <<>>)>>,
     <<BearNote(1, <<"a">>, <<"x">>, 0, <<Secret>>),
       BearNote(2, <<"a">>, <<"x">>, 0, <<Work, Home>>)>>,
     <<BearNote(1, LongTitle, <<"x">>, 0, <<>>),
       BearNote(2, LongTitle, <<"x">>, 0, <<>>)>>}

Init ==
    /\ bear \in InitialStores
    /\ vault = EmptyFn
    /\ state_file = Missing
    /\ inflight = {}
    /\ run = NoRun
    /\ since = {}
    /\ edits = 0
    /\ runs = 0
    /\ faults = 0
    /\ status = NoStatus
    /\ dcNotes = <<>>
    /\ dcBear = EmptyFn
    /\ dcObs = EmptyFn
    /\ dcOut = NoReport
    /\ dcPc = "args"
    /\ fnUsed = EmptyFn
    /\ fnIn = <<>>
    /\ fnOut = <<>>
    /\ stOrig = <<>>
    /\ stNotes = <<>>
    /\ stDocs = <<>>
    /\ cvBody = <<>>
    /\ cvId = 1
    /\ cvMod = 0
    /\ cvDoc = <<>>
    /\ cvBack = <<>>
    /\ cvPc = "body"
    /\ plText = <<>>
    /\ plTags = <<>>
    /\ plFolder = <<>>
    /\ plPc = "note"

Next ==
    \/ ExportAll
    \/ Pull
    \/ Push
    \/ PushDryRun
    \/ Status
    \/ PullCrash
    \/ PushCrash
    \/ ObsGarble
    \/ CorruptStateFile
    \/ BearCreate
    \/ BearEdit
    \/ BearTrash
    \/ WriteBackLands
    \/ ObsEdit
    \/ ObsDelete

Spec == Init /\ [][Next]_vars

\* ------------------------------------------- detect_changes on any arguments
DcIds == 1..MaxDcIds
DcHashes == {content_hash(<<"x">>), content_hash(<<"y">>)}
DcPath(bid) == PathJoin(UntaggedFolder, <<"a", " ">> \o Digits(bid))

Restrict(f, S) == [x \in S |-> f[x]]
Reverse(q) == [i \in 1..Len(q) |-> q[Len(q) + 1 - i]]

\* a store tracking the identifiers T, inserted in ascending or descending
\* order
DcStore(T, bh, oh, rev) ==
    LET ids == IF rev THEN Reverse(SortedIds(T)) ELSE SortedIds(T)
    IN [i \in 1..Len(ids) |->
           NoteState(ids[i], DcPath(ids[i]), bh[ids[i]], oh[ids[i]])]

DcStores ==
    {DcStore(T, bh, oh, rev) :
        T \in SUBSET DcIds, bh \in [DcIds -> DcHashes],
        oh \in [DcIds -> DcHashes], rev \in BOOLEAN}

DcMaps == {Restrict(h, S) : S \in SUBSET DcIds, h \in [DcIds -> DcHashes]}

InitDetect ==
    /\ bear = <<>>
    /\ vault = EmptyFn
    /\ state_file = Missing
    /\ inflight = {}
    /\ run = NoRun
    /\ since = {}
    /\ edits = 0
    /\ runs = 0
    /\ faults = 0
    /\ status = NoStatus
    /\ dcNotes \in DcStores
    /\ dcBear \in DcMaps
    /\ dcObs \in DcMaps
    /\ dcOut = NoReport
    /\ dcPc = "args"
    /\ fnUsed = EmptyFn
    /\ fnIn = <<>>
    /\ fnOut = <<>>
    /\ stOrig = <<>>
    /\ stNotes = <<>>
    /\ stDocs = <<>>
    /\ cvBody = <<>>
    /\ cvId = 1
    /\ cvMod = 0
    /\ cvDoc = <<>>
    /\ cvBack = <<>>
    /\ cvPc = "body"
    /\ plText = <<>>
    /\ plTags = <<>>
    /\ plFolder = <<>>
    /\ plPc = "note"

\* state.detect_changes(bear_notes, obsidian_files): the method assigns
\* nothing to self._notes
DetectChanges ==
    /\ dcPc = "args"
    /\ dcOut' = detect_changes(dcNotes, dcBear, dcObs)
    /\ dcNotes' = detect_changes_notes(dcNotes, dcBear, dcObs)
    /\ dcPc' = "done"
    /\ UNCHANGED <<dcBear, dcObs, mainVars, fnVars, stVars, cvVars,
                   plVars>>

NextDetect == DetectChanges

SpecDetect == InitDetect /\ [][NextDetect]_vars

\* --------------------------------- one FilenameDeduplicator, any call sequence
FnFolders == {<<"a">>, <<"A">>}
FnTitles == {<<"a">>, <<"A">>, <<"a", " ", "2">>, <<"a", " ", "3">>}

InitDedup ==
    /\ bear = <<>>
    /\ vault = EmptyFn
    /\ state_file = Missing
    /\ inflight = {}
    /\ run = NoRun
    /\ since = {}
    /\ edits = 0
    /\ runs = 0
    /\ faults = 0
    /\ status = NoStatus
    /\ dcNotes = <<>>
    /\ dcBear = EmptyFn
    /\ dcObs = EmptyFn
    /\ dcOut = NoReport
    /\ dcPc = "args"
    /\ fnUsed = EmptyFn
    /\ fnIn = <<>>
    /\ fnOut = <<>>
    /\ stOrig = <<>>
    /\ stNotes = <<>>
    /\ stDocs = <<>>
    /\ cvBody = <<>>
    /\ cvId = 1
    /\ cvMod = 0
    /\ cvDoc = <<>>
    /\ cvBack = <<>>
    /\ cvPc = "body"
    /\ plText = <<>>
    /\ plTags = <<>>
    /\ plFolder = <<>>
    /\ plPc = "note"

\* dedup.get_unique_path(folder, title)
GetUniquePath ==
    /\ Len(fnOut) < MaxCalls
    /\ \E folder \in FnFolders, title \in FnTitles :
          LET u == get_unique_path(fnUsed, folder, title)
          IN /\ fnUsed' = u.used
             /\ fnOut' = Append(fnOut, u.path)
             /\ fnIn' = Append(fnIn, [folder |-> folder, title |-> title])
    /\ UNCHANGED <<mainVars, dcVars, stVars, cvVars, plVars>>

NextDedup == GetUniquePath

SpecDedup == InitDedup /\ [][NextDedup]_vars

\* ------------------------------------------ save and load of any small store
StIds == 1..MaxStIds
StPaths == {DcPath(1), DcPath(2)}
StRecords ==
    {NoteState(b, p, content_hash(<<"x">>), oh) :
        b \in StIds, p \in StPaths, oh \in DcHashes}

\* the stores over StIds: any insertion order, paths possibly shared
StStores ==
    {q \in UNION {[1..n -> StRecords] : n \in 0..MaxStIds} :
        \A i, j \in 1..Len(q) : i # j => q[i].bear_id # q[j].bear_id}

InitStore ==
    /\ bear = <<>>
    /\ vault = EmptyFn
    /\ state_file = Missing
    /\ inflight = {}
    /\ run = NoRun
    /\ since = {}
    /\ edits = 0
    /\ runs = 0
    /\ faults = 0
    /\ status = NoStatus
    /\ dcNotes = <<>>
    /\ dcBear = EmptyFn
    /\ dcObs = EmptyFn
    /\ dcOut = NoReport
    /\ dcPc = "args"
    /\ fnUsed = EmptyFn
    /\ fnIn = <<>>
    /\ fnOut = <<>>
    /\ stOrig \in StStores
    /\ stNotes = stOrig
    /\ stDocs = <<>>
    /\ cvBody = <<>>
    /\ cvId = 1
    /\ cvMod = 0
    /\ cvDoc = <<>>
    /\ cvBack = <<>>
    /\ cvPc = "body"
    /\ plText = <<>>
    /\ plTags = <<>>
    /\ plFolder = <<>>
    /\ plPc = "note"

\* state.save()
StSave ==
    /\ Len(stDocs) < MaxSaves
    /\ stDocs' = Append(stDocs, save(stNotes))
    /\ UNCHANGED <<stOrig, stNotes, mainVars, dcVars, fnVars, cvVars,
                   plVars>>

\* SyncStateManager(vault) on the document saved last
StLoad ==
    /\ stDocs # <<>>
    /\ stNotes' = _load(stDocs[Len(stDocs)])
    /\ UNCHANGED <<stOrig, stDocs, mainVars, dcVars, fnVars, cvVars,
                   plVars>>

NextStore == StSave \/ StLoad

SpecStore == InitStore /\ [][NextStore]_vars

\* ------------------------------- conversion of any small body, and back
CvToks == {"x", Dashes, LF, _BRAILLE_BLANK}
CvBodies == UNION {[1..n -> CvToks] : n \in 0..MaxBody}

InitConvert ==
    /\ bear = <<>>
    /\ vault = EmptyFn
    /\ state_file = Missing
    /\ inflight = {}
    /\ run = NoRun
    /\ since = {}
    /\ edits = 0
    /\ runs = 0
    /\ faults = 0
    /\ status = NoStatus
    /\ dcNotes = <<>>
    /\ dcBear = EmptyFn
    /\ dcObs = EmptyFn
    /\ dcOut = NoReport
    /\ dcPc = "args"
    /\ fnUsed = EmptyFn
    /\ fnIn = <<>>
    /\ fnOut = <<>>
    /\ stOrig = <<>>
    /\ stNotes = <<>>
    /\ stDocs = <<>>
    /\ cvBody \in CvBodies
    /\ cvId \in Ids
    /\ cvMod \in Mods
    /\ cvDoc = <<>>
    /\ cvBack = <<>>
    /\ cvPc = "body"
    /\ plText = <<>>
    /\ plTags = <<>>
    /\ plFolder = <<>>
    /\ plPc = "note"

\* bear_to_obsidian(text, bear_id, ..., modified, ...) without attachments
BearToObsidian ==
    /\ cvPc = "body"
    /\ cvDoc' = bear_to_obsidian(cvBody, cvId, cvMod)
    /\ cvPc' = "doc"
    /\ UNCHANGED <<cvBody, cvId, cvMod, cvBack, mainVars, dcVars, fnVars,
                   stVars, plVars>>

\* obsidian_to_bear(text) without attachments
ObsidianToBear ==
    /\ cvPc = "doc"
    /\ cvBack' = obsidian_to_bear(cvDoc)
    /\ cvPc' = "back"
    /\ UNCHANGED <<cvBody, cvId, cvMod, cvDoc, mainVars, dcVars, fnVars,
                   stVars, plVars>>

\* strip_frontmatter(text)
StripFrontmatter ==
    /\ cvPc = "doc"
    /\ cvBack' = strip_frontmatter(cvDoc)
    /\ cvPc' = "stripped"
    /\ UNCHANGED <<cvBody, cvId, cvMod, cvDoc, mainVars, dcVars, fnVars,
                   stVars, plVars>>

NextConvert == BearToObsidian \/ ObsidianToBear \/ StripFrontmatter

SpecConvert == InitConvert /\ [][NextConvert]_vars

\* ------------------------------------------- the folder of any small note
PlToks == {"#", "home", "work", " ", "/"}
PlTexts == UNION {[1..n -> PlToks] : n \in 0..MaxText}
PlTagLists ==
    {<<>>, <<Home>>, <<Work, Home>>, <<Home, Work>>, <<<<"/">>, Home>>,
     <<<<"home", "/", "work">>, Work>>, <<<<>>>>, <<<<" ">>, Home>>}

InitPlace ==
    /\ bear = <<>>
    /\ vault = EmptyFn
    /\ state_file = Missing
    /\ inflight = {}
    /\ run = NoRun
    /\ since = {}
    /\ edits = 0
    /\ runs = 0
    /\ faults = 0
    /\ status = NoStatus
    /\ dcNotes = <<>>
    /\ dcBear = EmptyFn
    /\ dcObs = EmptyFn
    /\ dcOut = NoReport
    /\ dcPc = "args"
    /\ fnUsed = EmptyFn
    /\ fnIn = <<>>
    /\ fnOut = <<>>
    /\ stOrig = <<>>
    /\ stNotes = <<>>
    /\ stDocs = <<>>
    /\ cvBody = <<>>
    /\ cvId = 1
    /\ cvMod = 0
    /\ cvDoc = <<>>
    /\ cvBack = <<>>
    /\ cvPc = "body"
    /\ plText \in PlTexts
    /\ plTags \in PlTagLists
    /\ plFolder = <<>>
    /\ plPc = "note"

\* _export_note, lines 108-113: the folder relative to the vault
FileNote ==
    /\ plPc = "note"
    /\ plFolder' = NoteFolder([text |-> plText, tags |-> plTags])
    /\ plPc' = "filed"
    /\ UNCHANGED <<plText, plTags, mainVars, dcVars, fnVars, stVars,
                   cvVars>>

NextPlace == FileNote

SpecPlace == InitPlace /\ [][NextPlace]_vars

\* ================================================================== claims
Count(q, x) == Cardinality({k \in 1..Len(q) : q[k] = x})

\* the store a command loads at its start, and what it holds for bid
Tracked == _load(state_file)
\* a step of a command: one that returns or raises, or one that is killed
IsRun == runs' # runs \/ run' # run
\* the command ran to its end
Completed == run'.fatal = "none"
Saved == _load(state_file')

\* the note's body in Bear differs from the stored source hash
SrcDiff(ns) ==
    /\ ns.bear_id \in Uuids(bear)
    /\ content_hash(fetch_note_by_uuid(bear, ns.bear_id).text) # ns.bear_hash

\* the note's file differs from the stored destination hash
DstDiff(ns) ==
    /\ ns.file_path \in DOMAIN vault
    /\ content_hash(vault[ns.file_path]) # ns.obsidian_hash

ConflictNote(ns) == SrcDiff(ns) /\ DstDiff(ns)

\* C1: no run overwrites a destination file whose content hash differs from
\* the stored destination hash (an edit not yet pushed), and no run invokes
\* write-back for a note whose source hash differs from the stored source
\* hash (an edit not yet pulled).
C1_NoEditDestroyed ==
    [][IsRun =>
         \A i \in 1..Len(Tracked) :
            LET ns == Tracked[i]
            IN /\ DstDiff(ns) => ns.file_path \notin SeqToSet(run'.written)
               /\ SrcDiff(ns) => ns.bear_id \notin SeqToSet(run'.pushed)]_vars

\* how often bid occurs in the five lists of a report
Occurrences(r, bid) ==
    Count(r.bear_changed, bid) + Count(r.obsidian_changed, bid)
    + Count(r.conflicts, bid) + Count(r.new_in_bear, bid)
    + Count(r.deleted_in_bear, bid)

\* differences as section 4.4 defines them: a missing destination hash
\* falls back to the stored one
DcSrcDiff(bid) == dcBear[bid] # get_note(dcNotes, bid).bear_hash
DcDstDiff(bid) ==
    /\ bid \in DOMAIN dcObs
    /\ dcObs[bid] # get_note(dcNotes, bid).obsidian_hash

\* C2: in the report of detect_changes no identifier appears in more than
\* one of the five lists nor twice in one list; every identifier of the
\* source-hash map or of the tracked set appears exactly once, unless it is
\* tracked, present in the source map and unchanged on both sides, in which
\* case it appears in no list.
C2_Partition ==
    dcPc = "done" =>
        \A bid \in DcIds :
            LET S == DOMAIN dcBear
                T == TrackedIds(dcNotes)
                unchanged == /\ bid \in S \cap T
                             /\ ~DcSrcDiff(bid)
                             /\ ~DcDstDiff(bid)
                n == Occurrences(dcOut, bid)
            IN /\ n <= 1
               /\ bid \in S \cup T => (n = 1 <=> ~unchanged)
               /\ bid \notin S \cup T => n = 0

C2_Witness ==
    /\ dcPc = "done"
    /\ dcOut.conflicts # <<>>
    /\ dcOut.new_in_bear # <<>>
    /\ \E bid \in TrackedIds(dcNotes) \cap DOMAIN dcBear :
          Occurrences(dcOut, bid) = 0

\* C3: with S the identifiers of the source-hash map and T the tracked
\* ones, new = S \ T, deleted = T \ S, and an identifier of both is a
\* conflict iff both hashes differ from the stored ones, source-changed iff
\* only the source hash differs, destination-changed iff only the
\* destination hash differs, and in no list iff neither differs.
C3_Classification ==
    dcPc = "done" =>
        LET S == DOMAIN dcBear
            T == TrackedIds(dcNotes)
        IN /\ SeqToSet(dcOut.new_in_bear) = S \ T
           /\ SeqToSet(dcOut.deleted_in_bear) = T \ S
           /\ SeqToSet(dcOut.conflicts) \cup SeqToSet(dcOut.bear_changed)
                \cup SeqToSet(dcOut.obsidian_changed) \subseteq S \cap T
           /\ \A bid \in S \cap T :
                /\ bid \in SeqToSet(dcOut.conflicts)
                     <=> (DcSrcDiff(bid) /\ DcDstDiff(bid))
                /\ bid \in SeqToSet(dcOut.bear_changed)
                     <=> (DcSrcDiff(bid) /\ ~DcDstDiff(bid))
                /\ bid \in SeqToSet(dcOut.obsidian_changed)
                     <=> (~DcSrcDiff(bid) /\ DcDstDiff(bid))
                /\ Occurrences(dcOut, bid) = 0
                     <=> (~DcSrcDiff(bid) /\ ~DcDstDiff(bid))

C3_Witness ==
    /\ dcPc = "done"
    /\ dcOut.conflicts # <<>>
    /\ dcOut.bear_changed # <<>>
    /\ dcOut.obsidian_changed # <<>>

\* C4: a tracked note whose source hash and destination hash both differ
\* from the stored ones keeps its NoteState (path, both hashes) unchanged
\* across a pull run and across a push run, dry-run or not.
C4_ConflictStateKept ==
    [][(IsRun /\ run'.cmd \in {"pull", "push"}) =>
         \A i \in 1..Len(Tracked) :
            LET ns == Tracked[i]
            IN ConflictNote(ns) =>
                 /\ ns.bear_id \in TrackedIds(Saved)
                 /\ get_note(Saved, ns.bear_id) = ns]_vars

C4_Witness ==
    /\ run.cmd = "pull"
    /\ run.fatal = "none"
    /\ run.changes.conflicts # <<>>
    /\ \E i \in 1..Len(state_file.notes) :
          /\ state_file.notes[i].bear_id \in SeqToSet(run.changes.conflicts)
          /\ ConflictNote(state_file.notes[i])

\* the notes a command sees as conflicts when it starts (pull leaves the
\* notes carrying an excluded tag out of its snapshot)
ConflictsFor(cmd) ==
    {Tracked[i].bear_id :
        i \in {j \in 1..Len(Tracked) :
                  /\ ConflictNote(Tracked[j])
                  /\ cmd = "pull" =>
                       ~Excluded(fetch_note_by_uuid(bear,
                                                    Tracked[j].bear_id))}}

C6_ExportIdempotent ==
    [][(IsRun /\ Completed /\ run'.cmd = "export_all"
          /\ run.cmd = "export_all" /\ run.fatal = "none"
          /\ run.errors = <<>> /\ "bear" \notin since) =>
         /\ run'.written = <<>>
         /\ run'.sets = <<>>
         /\ state_file' = state_file]_vars

\* C7: when a tracked note's body changed only in the source store, pull
\* writes the converted document to the stored path and to no newly
\* generated one, keeps the stored file_path, stores the fingerprint of the
\* new body as source hash and the fingerprint of the written document as
\* destination hash.
C7_PullRewritesInPlace ==
    [][(IsRun /\ Completed /\ run'.cmd = "pull") =>
         /\ Len(run'.written) = Len(run'.sets)
         /\ \A k \in 1..Len(run'.sets) :
               run'.written[k] = get_note(Saved, run'.sets[k]).file_path
         /\ \A i \in 1..Len(Tracked) :
               LET ns == Tracked[i]
                   note == fetch_note_by_uuid(bear, ns.bear_id)
                   doc == bear_to_obsidian(note.text, note.uuid,
                                           note.modified)
                   after == get_note(Saved, ns.bear_id)
               IN (SrcDiff(ns) /\ ~DstDiff(ns) /\ ~Excluded(note)
                     /\ ns.bear_id \notin SeqToSet(run'.errors)) =>
                    /\ Count(run'.sets, ns.bear_id) = 1
                    /\ ns.file_path \in SeqToSet(run'.written)
                    /\ ns.file_path \in DOMAIN vault'
                    /\ Count(run'.written, ns.file_path) = 1
                         => vault'[ns.file_path] = doc
                    /\ after.file_path = ns.file_path
                    /\ after.bear_hash = content_hash(note.text)
                    /\ after.obsidian_hash = content_hash(doc)]_vars

C7_Witness ==
    /\ run.cmd = "pull"
    /\ run.fatal = "none"
    /\ run.changes.bear_changed # <<>>
    /\ run.written # <<>>
    /\ run.errors = <<>>

\* C8: after export_all on an empty state store with no per-note error the
\* store holds exactly one NoteState per in-scope note, each file exists at
\* its stored path in the folder of the note's primary tag (the catch-all
\* folder when untagged), the stored source hash is the fingerprint of the
\* body, the stored destination hash the fingerprint of the file, and a
\* classification taken right afterwards lists none of the exported notes.
C8_FreshExport ==
    [][(IsRun /\ Completed /\ run'.cmd = "export_all" /\ Tracked = <<>>
          /\ run'.errors = <<>>) =>
         LET report == detect_changes(Saved, AllBearHashes(bear'),
                                      ObsHashes(Saved, vault'))
         IN /\ TrackedIds(Saved) = InScopeIds(bear)
            /\ Len(Saved) = Cardinality(InScopeIds(bear))
            /\ \A u \in InScopeIds(bear) :
                  LET note == fetch_note_by_uuid(bear, u)
                      ns == get_note(Saved, u)
                  IN /\ ns.file_path \in DOMAIN vault'
                     /\ PathParent(ns.file_path) =
                          (IF note.tags = <<>> THEN UntaggedFolder
                           ELSE tag_to_folder(
                                  extract_primary_tag(note.text, note.tags)))
                     /\ ns.bear_hash = content_hash(note.text)
                     /\ ns.obsidian_hash =
                          content_hash(vault'[ns.file_path])
                     /\ Occurrences(report, u) = 0]_vars

C8_Witness ==
    /\ run.cmd = "export_all"
    /\ run.fatal = "none"
    /\ runs = 1
    /\ run.errors = <<>>
    /\ Len(state_file.notes) = 2
    /\ \E i, j \in 1..Len(state_file.notes) :
          PathParent(state_file.notes[i].file_path)
            # PathParent(state_file.notes[j].file_path)

\* C9: for every destination-changed note push invokes write-back and
\* updates the stored hashes only when the re-read shows that the write
\* landed: then the stored source hash is the fingerprint of the re-read
\* body and the stored destination hash that of the pushed document; when
\* the write-back fails, is late or does nothing, the stored hashes stay
\* unchanged and a verification failure is recorded.
C9_VerifiedBeforeUpdate ==
    [][(IsRun /\ Completed /\ run'.cmd = "push" /\ ~run'.dry_run) =>
         \A bid \in SeqToSet(PushReport.obsidian_changed) :
            LET ns == get_note(Tracked, bid)
                doc == vault[ns.file_path]
                after == get_note(Saved, bid)
            IN /\ bid \in SeqToSet(run'.pushed)
               /\ run'.outcome[bid] = "lands" =>
                    /\ after.bear_hash =
                         content_hash(fetch_note_by_uuid(bear', bid).text)
                    /\ after.obsidian_hash = content_hash(doc)
               /\ run'.outcome[bid] # "lands" =>
                    /\ after = ns
                    /\ bid \in SeqToSet(run'.errors)]_vars

\* C10: a dry-run push invokes no write-back, leaves every NoteState
\* unchanged and does not persist (create or rewrite) the state document.
C10_DryRunNoPersist ==
    [][(IsRun /\ Completed /\ run'.cmd = "push" /\ run'.dry_run) =>
         /\ run'.pushed = <<>>
         /\ bear' = bear
         /\ run'.sets = <<>>
         /\ Saved = Tracked
         /\ run'.saves = 0
         /\ state_file' = state_file]_vars

\* the notes a command has to process, taken from what it returns
ToProcess ==
    CASE run'.cmd = "export_all" -> InScopeIds(bear)
      [] run'.cmd = "pull" ->
            {b \in SeqToSet(run'.changes.new_in_bear)
                     \cup SeqToSet(run'.changes.bear_changed) :
                b \in InScopeIds(bear) \/ b \in TrackedIds(Tracked)}
      [] OTHER -> SeqToSet(run'.changes.obsidian_changed)

\* C11: in export_all, pull and push no failure on a single note (file
\* read, file write, write-back, verification) ends the run: the command
\* returns, every note it had to process is either processed or in the
\* error list, and the state of every note updated is persisted.
C11_NoteFailuresCaught ==
    [][(IsRun /\ run'.fatal \notin {"db", "state", "crash"}) =>
         /\ run'.fatal = "none"
         /\ \A b \in ToProcess :
               \/ b \in SeqToSet(run'.sets)
               \/ b \in SeqToSet(run'.errors)
               \/ run'.dry_run
         /\ ~run'.dry_run =>
               /\ run'.saves = 1
               /\ \A b \in SeqToSet(run'.sets) : b \in TrackedIds(Saved)]_vars

\* the document is one no save() can have written
Corrupt(doc) == doc \in CorruptDocs

\* C12: a missing state file loads as an empty store, and every corrupt
\* state file (unparseable, or parseable without the records structure or
\* a field) is a fatal error of the run that loads it.
C12_CorruptStateFatal ==
    [][(IsRun /\ run'.loads = 1) =>
         /\ state_file = Missing =>
               (run'.fatal # "state" /\ Tracked = <<>>)
         /\ Corrupt(state_file) => run'.fatal = "state"]_vars

\* C13: when the source store is unreachable or the state document is
\* corrupt, export_all, pull and push write no destination file, invoke no
\* write-back and leave the state document as it was.
C13_FatalBeforeMutation ==
    [][(IsRun /\ (run'.fatal = "db" \/ Corrupt(state_file))) =>
         /\ vault' = vault
         /\ run'.written = <<>>
         /\ run'.pushed = <<>>
         /\ bear' = bear
         /\ inflight' = inflight
         /\ state_file' = state_file]_vars

\* C14: the paths one FilenameDeduplicator returns are pairwise distinct
\* when compared case-insensitively, whatever folders and titles it is
\* called with.
C14_UniquePaths ==
    \A i, j \in 1..Len(fnOut) :
        i < j => Lower(fnOut[i]) # Lower(fnOut[j])

C14_Witness ==
    /\ Len(fnIn) = 3
    /\ fnIn[1].title = <<"a", " ", "2">>
    /\ fnIn[2].title = <<"A">>
    /\ fnIn[3].title = <<"a">>
    /\ \A k \in 1..3 : fnIn[k].folder = <<"a">>
    /\ fnOut[3] = PathJoin(<<"a">>, <<"a", " ", "3">>)

\* C15: every saved document lists the records in ascending order of
\* file_path; saving, loading and saving again gives the same document,
\* also when records share a path; the loaded store holds exactly the
\* NoteStates that were saved.
C15_SaveLoadSave ==
    /\ \A k \in 1..Len(stDocs) :
          /\ stDocs[k] = stDocs[1]
          /\ stDocs[k].kind = "ok"
          /\ \A i, j \in 1..Len(stDocs[k].notes) :
                i < j => ~StrLess(stDocs[k].notes[j].file_path,
                                  stDocs[k].notes[i].file_path)
          /\ SeqToSet(_load(stDocs[k])) = SeqToSet(stOrig)
          /\ Len(_load(stDocs[k])) = Len(stOrig)
    /\ SeqToSet(stNotes) = SeqToSet(stOrig)
    /\ Len(stNotes) = Len(stOrig)

C15_Witness ==
    /\ Len(stDocs) >= 2
    /\ stNotes # stOrig
    /\ stNotes = _load(stDocs[1])
    /\ \E i, j \in 1..Len(stOrig) :
          i # j /\ stOrig[i].file_path = stOrig[j].file_path

\* C16: a tracked note present in the source map and absent from the
\* destination map is never reported as destination-changed nor as a
\* conflict, and is reported as source-changed exactly when its source
\* hash differs from the stored one.
C16_MissingFileUnchanged ==
    dcPc = "done" =>
        \A bid \in (TrackedIds(dcNotes) \cap DOMAIN dcBear) \ DOMAIN dcObs :
            /\ bid \notin SeqToSet(dcOut.obsidian_changed)
            /\ bid \notin SeqToSet(dcOut.conflicts)
            /\ bid \in SeqToSet(dcOut.bear_changed) <=> DcSrcDiff(bid)

C16_Witness ==
    /\ dcPc = "done"
    /\ \E b1, b2 \in (TrackedIds(dcNotes) \cap DOMAIN dcBear) \ DOMAIN dcObs :
          /\ DcSrcDiff(b1)
          /\ ~DcSrcDiff(b2)
          /\ Occurrences(dcOut, b2) = 0

\* C17: a call of detect_changes leaves the store as it was: the same
\* NoteState for the same identifiers.
C17_DetectReadOnly ==
    [][dcPc' # dcPc => dcNotes' = dcNotes]_vars

C17_Witness ==
    /\ dcPc = "done"
    /\ dcOut.deleted_in_bear # <<>>
    /\ dcOut.new_in_bear # <<>>
    /\ dcOut.conflicts # <<>>

\* C18: when a pull or push run was killed after its writes and before its
\* save, and nothing was edited since, the next pull or push run reports
\* none of the notes the killed run had updated as a conflict.
C18_CrashReconciles ==
    [][(IsRun /\ Completed /\ run'.cmd \in {"pull", "push"}
          /\ run.fatal = "crash" /\ since = {}) =>
         \A b \in SeqToSet(run.sets) :
            b \notin SeqToSet(run'.changes.conflicts)]_vars

\* C19: every connection to the source store a command opens is closed
\* when it returns or raises; export_all and pull open one, push opens one
\* more after each write-back that was requested.
C19_ConnectionsClosed ==
    [][(IsRun /\ run'.fatal # "crash") =>
         /\ run'.closed = run'.opened
         /\ run'.cmd # "push" => run'.opened <= 1
         /\ run'.cmd = "push" =>
               run'.opened <= 1 + Len(run'.pushed)]_vars

C21_RoundTrip ==
    cvPc \in {"back", "stripped"} => cvBack = cvBody

\* C22: a note that a pull run exports as new gets a path that differs,
\* case-insensitively, from the path of every note tracked when the run
\* started; when its folder and sanitized title are those of a tracked
\* path, the path it gets carries a numeric suffix.
C22_NewNoteKeepsTrackedFiles ==
    [][(IsRun /\ Completed /\ run'.cmd = "pull") =>
         \A b \in SeqToSet(run'.changes.new_in_bear)
                     \cap SeqToSet(run'.sets) :
            LET p == get_note(Saved, b).file_path
                note == fetch_note_by_uuid(bear, b)
                plain == PathJoin(NoteFolder(note),
                                  sanitize_title(note.title))
            IN /\ \A k \in 1..Len(Tracked) :
                     Lower(p) # Lower(Tracked[k].file_path)
               /\ (\E k \in 1..Len(Tracked) :
                      Lower(plain) = Lower(Tracked[k].file_path))
                  => \E n \in 2..9 :
                        p = PathJoin(NoteFolder(note),
                                     sanitize_title(note.title)
                                        \o <<" ">> \o Digits(n))]_vars

\* the k-th call of the instance: how many calls up to it had its folder
\* and title, the unsuffixed and the suffixed names of its title, and
\* whether a path was issued before it
FnOcc(k) == Cardinality({i \in 1..k : fnIn[i] = fnIn[k]})
FnPlain(k) == PathJoin(fnIn[k].folder, sanitize_title(fnIn[k].title))
FnSuffixed(k, n) ==
    PathJoin(fnIn[k].folder,
             sanitize_title(fnIn[k].title) \o <<" ">> \o Digits(n))
FnTaken(k, p) == \E i \in 1..(k - 1) : Lower(fnOut[i]) = Lower(p)
FnFrom(k) == IF FnOcc(k) < 2 THEN 2 ELSE FnOcc(k)
FnLowestFree(k) ==
    \E n \in FnFrom(k)..(MaxCalls + 4) :
        /\ fnOut[k] = FnSuffixed(k, n)
        /\ ~FnTaken(k, FnSuffixed(k, n))
        /\ \A m \in FnFrom(k)..(n - 1) : FnTaken(k, FnSuffixed(k, m))

\* C23 as stated: among the calls with one folder and title the first is
\* issued the unsuffixed name, and each later one the lowest-numbered
\* suffixed name, from 2 and from its occurrence count on, that is free.
C23_FirstUnsuffixed ==
    \A k \in 1..Len(fnOut) :
        IF FnOcc(k) = 1 THEN fnOut[k] = FnPlain(k) ELSE FnLowestFree(k)

\* C23 as amended: the first is issued the unsuffixed name when no path
\* issued before equals it case-insensitively; every other call is issued
\* the lowest-numbered suffixed name, from 2 and from its occurrence count
\* on, that is free. The paths issued are thereby a function of the
\* sequence of requests.
C23_IssuanceOrder ==
    \A k \in 1..Len(fnOut) :
        IF FnOcc(k) = 1 /\ ~FnTaken(k, FnPlain(k))
        THEN fnOut[k] = FnPlain(k)
        ELSE FnLowestFree(k)

C23_Witness ==
    /\ Len(fnOut) = 4
    /\ fnIn[1] = fnIn[2]
    /\ fnIn[4] = fnIn[1]
    /\ fnIn[1].title = <<"a">>
    /\ fnIn[3].folder = fnIn[1].folder
    /\ fnIn[3].title = <<"a", " ", "2">>
    /\ fnOut[3] = FnSuffixed(3, 2)
    /\ fnOut[4] = FnSuffixed(4, 3)

\* the inline tag markers of the text being filed: a "#" at the start or
\* after a blank, followed by tag characters; the marker reads up to the
\* first character that is not one
PlIsMarker(i) ==
    /\ plText[i] = "#"
    /\ (i = 1 \/ plText[i - 1] \in Whitespace)
    /\ i < Len(plText)
    /\ plText[i + 1] \in TagChars
PlMarkerEnd(i) ==
    CHOOSE j \in (i + 1)..Len(plText) :
        /\ \A k \in (i + 1)..j : plText[k] \in TagChars
        /\ (j = Len(plText) \/ plText[j + 1] \notin TagChars)
PlMarker(i) == SubSeq(plText, i + 1, PlMarkerEnd(i))
PlMatching ==
    {i \in 1..Len(plText) : PlIsMarker(i) /\ PlMarker(i) \in SeqToSet(plTags)}
PlChosen ==
    IF PlMatching # {}
    THEN PlMarker(CHOOSE i \in PlMatching : \A j \in PlMatching : i <= j)
    ELSE plTags[1]

SameState(bid) ==
    IF bid \in TrackedIds(Tracked)
    THEN bid \in TrackedIds(Saved)
         /\ get_note(Saved, bid) = get_note(Tracked, bid)
    ELSE bid \notin TrackedIds(Saved)

\* C25: export_all and pull write no file and set no NoteState for a note
\* that carries an excluded tag, nor for a tracked note whose body equals
\* the stored source hash.
C25_OnlyNewOrChanged ==
    [][(IsRun /\ Completed /\ run'.cmd \in {"export_all", "pull"}) =>
         \A i \in 1..Len(bear) :
            LET note == bear[i]
                unchanged ==
                    /\ note.uuid \in TrackedIds(Tracked)
                    /\ ~SrcDiff(get_note(Tracked, note.uuid))
            IN (Excluded(note) \/ unchanged) =>
                  /\ note.uuid \notin SeqToSet(run'.sets)
                  /\ SameState(note.uuid)]_vars

\* C26: a run tracks every note it exports; no run drops the NoteState of
\* a note that is present in the source; a tracked note that is gone from
\* the source is listed as deleted by pull and push, and no run deletes or
\* changes its file.
C26_StateLifecycle ==
    [][IsRun =>
         /\ Completed =>
               \A b \in SeqToSet(run'.sets) : b \in TrackedIds(Saved)
         /\ \A b \in TrackedIds(Tracked) \cap Uuids(bear) :
               b \in TrackedIds(Saved)
         /\ \A b \in TrackedIds(Tracked) \ Uuids(bear) :
               LET p == get_note(Tracked, b).file_path
               IN /\ (Completed /\ run'.cmd \in {"pull", "push"}) =>
                        b \in SeqToSet(run'.changes.deleted_in_bear)
                  /\ p \in DOMAIN vault =>
                        (p \in DOMAIN vault' /\ vault'[p] = vault[p])]_vars

Ascending(q) == \A i, j \in 1..Len(q) : i < j => q[i] < q[j]

\* C27: each of the five lists of a report is in ascending order of
\* identifier, whatever the order the store was filled in, so a report is
\* fixed by the sets of identifiers it lists.
C27_ListsSorted ==
    dcPc = "done" =>
        /\ Ascending(dcOut.bear_changed)
        /\ Ascending(dcOut.obsidian_changed)
        /\ Ascending(dcOut.conflicts)
        /\ Ascending(dcOut.new_in_bear)
        /\ Ascending(dcOut.deleted_in_bear)

C27_Witness ==
    /\ dcPc = "done"
    /\ Len(dcNotes) = 3
    /\ dcNotes[1].bear_id > dcNotes[2].bear_id
    /\ Len(dcOut.conflicts) = 2
    /\ Len(dcOut.deleted_in_bear) = 1

\* C28: no two NoteStates of the persisted store, those of notes gone from
\* the source included, have the same file path compared
\* case-insensitively.
C28_DistinctStatePaths ==
    \A i, j \in 1..Len(Tracked) :
        i < j => Lower(Tracked[i].file_path) # Lower(Tracked[j].file_path)

\* C29: a pull run that follows a pull run which completed without
\* errors, with no edit on either side and the state document untouched in
\* between, writes no file, sets no NoteState, leaves the state document
\* and the vault as they were and reports no note as new or
\* source-changed.
C29_PullIdempotent ==
    [][(IsRun /\ Completed /\ run'.cmd = "pull"
          /\ run.cmd = "pull" /\ run.fatal = "none" /\ run.errors = <<>>
          /\ since = {} /\ ~Corrupt(state_file)) =>
         /\ run'.written = <<>>
         /\ run'.sets = <<>>
         /\ run'.changes.new_in_bear = <<>>
         /\ run'.changes.bear_changed = <<>>
         /\ vault' = vault
         /\ state_file' = state_file]_vars

C29_Witness ==
    /\ runs = 2
    /\ edits = 0
    /\ run.cmd = "pull"
    /\ run.fatal = "none"
    /\ run.written = <<>>
    /\ Len(Tracked) = 2
    /\ get_note(Tracked, 2).file_path =
          PathJoin(UntaggedFolder, <<"A", " ", "2">>)

\* the identifiers whose write-back landed in the push run just made
Landed(r) ==
    {b \in DOMAIN r.outcome : r.outcome[b] = "lands"} \cap SeqToSet(r.pushed)

\* C30: when the write-back of a destination-changed note lands before
\* the re-read, then after the push run the body in Bear is the file
\* content without its metadata block, the classification taken in the
\* state the run leaves lists the note nowhere (so it is not in the
\* worklist of a push started there), and a push run that follows with
\* no edit in between invokes no write-back for it.
C30_PushConverges ==
    [][IsRun =>
         /\ (Completed /\ run'.cmd = "push" /\ ~run'.dry_run) =>
               \A bid \in Landed(run') :
                  LET ns == get_note(Tracked, bid)
                  IN /\ bid \in SeqToSet(run'.changes.obsidian_changed)
                     /\ bid \in Uuids(bear')
                     /\ fetch_note_by_uuid(bear', bid).text =
                           strip_frontmatter(vault[ns.file_path])
                     /\ Occurrences(PushReport', bid) = 0
         /\ (run'.cmd = "push" /\ run.cmd = "push" /\ run.fatal = "none"
               /\ since = {}) =>
               \A bid \in Landed(run) : bid \notin SeqToSet(run'.pushed)]_vars

C30_Witness ==
    /\ run.cmd = "push"
    /\ run.fatal = "none"
    /\ Landed(run) # {}
    /\ \E bid \in Landed(run) :
          /\ bid \in SeqToSet(run.sets)
          /\ fetch_note_by_uuid(bear, bid).text # <<"x">>

\* C31: a pull or push run started in the state a status command has just
\* reported on computes the report status printed, and the pull acts on
\* every note status listed as new or source-changed (it writes it or
\* records an error for it).
C31_SameReport ==
    [][(IsRun /\ Completed /\ status.shown
          /\ run'.cmd \in {"pull", "push"}) =>
         /\ run'.changes = status.changes
         /\ run'.cmd = "pull" =>
               \A b \in SeqToSet(status.changes.new_in_bear)
                        \cup SeqToSet(status.changes.bear_changed) :
                  b \in SeqToSet(run'.sets) \cup SeqToSet(run'.errors)]_vars

====
